---- MODULE Spec2Model ----
(***************************************************************************)
(* State-machine model of the AliExpress reviews scraper.  The repository  *)
(* holds eight rewrites of one harvest loop; `variant` selects which one   *)
(* runs:                                                                   *)
(*   "api"        src/unnamed/part_001   1-202  API pagination             *)
(*   "stable"     src/unnamed/part_001 204-393  scroll, stableRounds       *)
(*   "noprog"     src/unnamed/part_001 395-755  scroll, noProgress         *)
(*   "nonew"      src/unnamed/part_002   1-237  scroll, noNewRounds        *)
(*   "height"     src/unnamed/part_002 239-474  scroll, noChangeRounds     *)
(*   "nonewcount" src/unnamed/part_002 476-798  scroll, noNewCount         *)
(*   "single"     src/src/main.js        1-300  one extraction, no loop    *)
(*   "intercept"  src/src/main.js      302-548  response callback + scroll *)
(* A step of the model is the code between two awaits of the request       *)
(* handler; the crawler re-invokes a handler that threw (maxRequestRetries)*)
(* and response callbacks of the "intercept" variant run at the awaits.    *)
(***************************************************************************)
EXTENDS Integers, Sequences, FiniteSets, TLC

VARIABLES
    variant,         \* which rewrite runs
    RESULTS_WANTED,  \* effective target
    world,           \* what the product page / API can show (environment)
    shown,           \* environment: reviews materialized on the page so far
    pc,              \* position of the request handler
    retryCount,      \* request.retryCount of the crawler
    faults,          \* provider throws and handler timeouts so far
    round,           \* loop counter (round / i / attempt)
    saved,           \* saved
    seen,            \* seenTexts / seenIds
    buffer,          \* reviews / allReviews / collectedReviews
    stall,           \* stableRounds / noNewRounds / noChangeRounds / noProgress / noNewCount
    lastCount,       \* lastSavedCount / lastCount / prevCount / previousCount
    lastHeight,      \* lastHeight
    pageNumber,      \* pageNumber (api)
    totalPages,      \* totalPages (api)
    dataset,         \* the batches handed to Dataset.pushData, in call order
    accepted,        \* history: records accepted by a dedup step, in order
    base,            \* history: Len(accepted) when the live `saved` was set to 0
    roundsRun,       \* history: rounds begun by the running handler invocation
    idle,            \* history: consecutive rounds without provider progress
    progressed,      \* history: some round of this invocation made progress
    exitReason,      \* history: why the harvest loop of this invocation ended
    RESULTS_WANTED_RAW, \* the results_wanted input
    raw,             \* field mapping: what the page or the API exposes for one review
    emitted          \* field mapping: the record made of it

vars == <<variant, RESULTS_WANTED, world, shown, pc, retryCount, faults, round, saved,
          seen, buffer, stall, lastCount, lastHeight, pageNumber, totalPages,
          dataset, accepted, base, roundsRun, idle, progressed, exitReason,
          RESULTS_WANTED_RAW, raw, emitted>>

-----------------------------------------------------------------------------
(* Bounds of the model *)

MaxFaults == 3       \* provider throws / timeouts injected per run
MaxTotalPages == 2   \* largest totalPage the API reports
MaxPageLen == 2      \* longest list one API page carries
MaxPage == 4         \* page numbers from here on are told apart by parity only

(* Program constants *)

BATCH_SIZE == 10
MAX_ATTEMPTS == 3

ScrollVariants == {"stable", "noprog", "nonew", "height", "nonewcount"}
Variants == ScrollVariants \cup {"api", "single", "intercept"}

\* saved and the seen set are declared inside requestHandler only in "api"
LocalCounters(v) == v = "api"
\* the pending buffer is declared at module level only in "intercept"
LocalBuffer(v) == v # "intercept"

RoundCeiling(v) ==
    CASE v = "stable"     -> 150
      [] v = "noprog"     -> 80
      [] v = "nonew"      -> 60
      [] v = "height"     -> 100
      [] v = "nonewcount" -> 100
      [] v = "intercept"  -> 60
      [] OTHER            -> 0

StallThreshold(v) ==
    CASE v = "stable"     -> 20
      [] v = "noprog"     -> 6
      [] v = "nonew"      -> 8
      [] v = "height"     -> 15
      [] v = "nonewcount" -> 8
      [] OTHER            -> 0

MaxRequestRetries(v) ==
    CASE v = "api"    -> 2
      [] v = "single" -> 5
      [] OTHER        -> 3

-----------------------------------------------------------------------------
(* The environment: the reviews of the product *)

\* The i-th review of the product.  text.head stands for the leading
\* characters that substring(0, N) keeps, text.tail for the rest.
HeadOf(i) == IF world.dupEvery > 0 /\ i % world.dupEvery = 0 THEN i - 1 ELSE i
RawAt(i) == [id |-> i, text |-> [head |-> HeadOf(i), tail |-> i]]

\* What one extraction can return: the first v reviews materialized.
Visible(v) == [i \in 1..v |-> RawAt(i)]
Window(lo, hi) == [i \in 1..(hi - lo + 1) |-> RawAt(lo + i - 1)]
Max(a, b) == IF a >= b THEN a ELSE b
Min(a, b) == IF a <= b THEN a ELSE b

\* The page is cumulative: an extraction shows what the last one showed plus
\* at most world.maxNew more; a steady page shows something new at every
\* extraction until it has shown everything.
Pulls ==
    {v \in shown..world.total :
        /\ v <= shown + world.maxNew
        /\ v > shown \/ shown = world.total \/ ~world.steady}

\* What the modal reports: found or not, and its scrollHeight.
HeightObs == {[found |-> FALSE, height |-> 0] : f \in world.modal \ {TRUE}} \cup
             {[found |-> TRUE, height |-> h] : f \in world.modal \ {FALSE}, h \in world.heights}
NoObs == [found |-> FALSE, height |-> 0]

-----------------------------------------------------------------------------
(* Dedup step *)

\* The key a dedup step files a raw record under:
\*   "text"  r.text.substring(0, 80) / review_text.substring(0, 60) / (0, 50)
\*   "id"    review.evaluationIdStr || String(review.evaluationId) / r.evaluationId
\*   "rnd"   an id made of Date.now() and Math.random() at extraction
\* A review the API sends without evaluationIdStr and evaluationId gives
\*   String(undefined) in "api", the made-up id elsewhere.
HasId(r) == r.id \notin world.idless
Key(r, how) ==
    CASE how = "text" -> <<"text", r.text.head>>
      [] how = "id"   -> IF HasId(r) THEN <<"id", r.id>>
                         ELSE IF variant = "api" THEN <<"undefined", 0>>
                         ELSE <<"rnd", r.id>>
      [] OTHER        -> <<"rnd", r.id>>

MakeReview(r, savedBefore, how) ==
    [review_id |-> IF variant \in {"stable", "nonew", "height"}
                   THEN <<"seq", savedBefore + 1>>
                   ELSE IF how = "id" THEN Key(r, "id") ELSE <<"rnd", r.id>>,
     text |-> r.text]

\* The dedup step without its target guard (if (saved >= RESULTS_WANTED) break).
RECURSIVE AddUniqueNoTarget(_, _, _, _)
AddUniqueNoTarget(found, i, st, how) ==
    IF i > Len(found) THEN st
    ELSE IF Key(found[i], how) \in st.seen THEN AddUniqueNoTarget(found, i + 1, st, how)
    ELSE AddUniqueNoTarget(found, i + 1,
            [saved |-> st.saved + 1,
             seen  |-> st.seen \cup {Key(found[i], how)},
             buf   |-> Append(st.buf, MakeReview(found[i], st.saved, how))],
            how)

\* for (const r of found) { if (saved >= RESULTS_WANTED) break;
\*   if (!seen.has(key)) { seen.add(key); buffer.push({...}); saved++; } }
RECURSIVE AddUnique(_, _, _, _)
AddUnique(found, i, st, how) ==
    IF i > Len(found) THEN st
    ELSE IF st.saved >= RESULTS_WANTED THEN st
    ELSE IF Key(found[i], how) \in st.seen THEN AddUnique(found, i + 1, st, how)
    ELSE AddUnique(found, i + 1,
            [saved |-> st.saved + 1,
             seen  |-> st.seen \cup {Key(found[i], how)},
             buf   |-> Append(st.buf, MakeReview(found[i], st.saved, how))],
            how)

Take(s, n) == SubSeq(s, 1, n)
Drop(s, n) == SubSeq(s, n + 1, Len(s))

-----------------------------------------------------------------------------
(* Scroll variants: one round of the for-loop up to the scroll *)

\* The loop header without its round ceiling.
LoopCondNoCeiling(v, r, s) == s < RESULTS_WANTED

\* for (let round = 0; round < 150 && saved < RESULTS_WANTED; round++)
LoopCond(v, r, s) == r < RoundCeiling(v) /\ s < RESULTS_WANTED

\* The stall check of a round: the new counter values and whether it breaks.
StallStep(v, savedNow, h) ==
    CASE v = "stable" ->
           IF ~((h.height # lastHeight) \/ (savedNow > lastCount))
           THEN [stall |-> stall + 1, lastCount |-> lastCount, lastHeight |-> lastHeight,
                 brk |-> stall + 1 >= StallThreshold(v)]
           ELSE [stall |-> 0, lastCount |-> savedNow, lastHeight |-> h.height,
                 brk |-> FALSE]
      [] v = "nonew" ->
           IF savedNow = lastCount
           THEN [stall |-> stall + 1, lastCount |-> lastCount, lastHeight |-> lastHeight,
                 brk |-> stall + 1 >= StallThreshold(v)]
           ELSE [stall |-> 0, lastCount |-> savedNow, lastHeight |-> lastHeight,
                 brk |-> FALSE]
      [] v = "height" ->
           LET n == IF ~h.found THEN stall
                    ELSE IF h.height = lastHeight THEN stall + 1 ELSE 0
           IN [stall |-> n, lastCount |-> lastCount,
               lastHeight |-> IF h.found THEN h.height ELSE lastHeight,
               brk |-> n >= StallThreshold(v)]
      [] OTHER -> \* "noprog", "nonewcount"
           LET n == IF savedNow = lastCount THEN stall + 1 ELSE 0
               b == savedNow = lastCount /\ n >= StallThreshold(v)
           IN [stall |-> n, lastCount |-> IF b THEN lastCount ELSE savedNow,
               lastHeight |-> lastHeight, brk |-> b]

\* The target check of a round that never fires.
TargetNever(s) == FALSE

\* if (saved >= RESULTS_WANTED) break;
TargetReached(s) == s >= RESULTS_WANTED

\* "noprog" and "nonewcount" save the batch before the target check.
BatchFirst(v) == v \in {"noprog", "nonewcount"}

\* Whether the page showed progress in a round: a review it had not shown
\* before, or a modal height other than the last one the loop recorded.
RoundProgress(v, fresh, h) ==
    \/ fresh
    \/ v \in {"stable", "height"} /\ h.found /\ h.height # lastHeight

ScrollRound ==
    /\ pc = "extract"
    /\ variant \in ScrollVariants
    /\ \E v \in Pulls :
       \E h \in (IF variant \in {"stable", "height"} THEN HeightObs ELSE {NoObs}) :
         LET st == AddUnique(Visible(v), 1, [saved |-> saved, seen |-> seen, buf |-> buffer], "text")
             new == SubSeq(st.buf, Len(buffer) + 1, Len(st.buf))
             target == TargetReached(st.saved)
             ss == StallStep(variant, st.saved, h)
             doBatch == /\ Len(st.buf) >= BATCH_SIZE
                        /\ (BatchFirst(variant) \/ (~target /\ ~ss.brk))
             prog == RoundProgress(variant, v > shown, h)
         IN /\ shown' = v
            /\ saved' = st.saved
            /\ seen' = st.seen
            /\ accepted' = accepted \o new
            /\ buffer' = IF doBatch THEN Drop(st.buf, BATCH_SIZE) ELSE st.buf
            /\ dataset' = IF doBatch THEN Append(dataset, Take(st.buf, BATCH_SIZE))
                          ELSE dataset
            /\ stall' = IF target THEN stall ELSE ss.stall
            /\ lastCount' = IF target THEN lastCount ELSE ss.lastCount
            /\ lastHeight' = IF target THEN lastHeight ELSE ss.lastHeight
            /\ pc' = IF target \/ ss.brk THEN "flush" ELSE "advance"
            /\ exitReason' = IF target THEN "target"
                             ELSE IF ss.brk THEN "stall" ELSE exitReason
            /\ roundsRun' = roundsRun + 1
            /\ progressed' = (progressed \/ prog)
            /\ idle' = IF prog \/ ~progressed THEN 0 ELSE idle + 1
    /\ UNCHANGED <<RESULTS_WANTED_RAW, raw, emitted, variant, RESULTS_WANTED, world, retryCount, faults, round,
                   pageNumber, totalPages, base>>

\* The scroll at the end of a round, the settle wait and the loop header.
ScrollAdvance ==
    /\ pc = "advance"
    /\ variant \in ScrollVariants
    /\ \E scrolled \in (IF BatchFirst(variant) THEN BOOLEAN ELSE {TRUE}) :
         LET brk == CASE variant = "noprog"     -> ~scrolled /\ stall >= 2
                      [] variant = "nonewcount" -> ~scrolled
                      [] OTHER                  -> FALSE
         IN IF brk
            THEN /\ pc' = "flush"
                 /\ exitReason' = "noscroll"
                 /\ UNCHANGED <<round, idle, progressed>>
            ELSE /\ round' = round + 1
                 /\ pc' = IF LoopCond(variant, round + 1, saved) THEN "extract" ELSE "flush"
                 /\ exitReason' = IF LoopCond(variant, round + 1, saved) THEN exitReason
                                  ELSE "ceiling"
                 /\ progressed' = (progressed \/ (BatchFirst(variant) /\ scrolled))
                 /\ idle' = IF BatchFirst(variant) /\ scrolled THEN 0 ELSE idle
    /\ UNCHANGED <<RESULTS_WANTED_RAW, raw, emitted, variant, RESULTS_WANTED, world, shown, retryCount, faults, saved, seen,
                   buffer, stall, lastCount, lastHeight, pageNumber, totalPages,
                   dataset, accepted, base, roundsRun>>

\* if (reviews.length > 0) await Dataset.pushData(reviews)
\* pushData reads the array when it is called; in "intercept" the handler then
\* waits for it ("flushing") with the response callback still attached.
FinalFlush ==
    /\ pc = "flush"
    /\ variant # "api"
    /\ dataset' = IF Len(buffer) > 0 THEN Append(dataset, buffer) ELSE dataset
    /\ buffer' = IF LocalBuffer(variant) THEN <<>> ELSE buffer
    /\ pc' = IF variant = "intercept" /\ Len(buffer) > 0 THEN "flushing" ELSE "done"
    /\ UNCHANGED <<RESULTS_WANTED_RAW, raw, emitted, variant, RESULTS_WANTED, world, shown, retryCount, faults, round, saved,
                   seen, stall, lastCount, lastHeight, pageNumber, totalPages,
                   accepted, base, roundsRun, idle, progressed, exitReason>>

-----------------------------------------------------------------------------
(* "api": pagination over the feedback API *)

\* let totalPages = null
NULL == -1

ErrorOutcome == [kind |-> "error"]

\* The lists the API may answer with: nothing, reviews it sent before, or the next ones.
ApiLists ==
    {<<>>} \cup
    {Window(lo, hi) : lo \in {x \in {1, shown + 1} : x <= world.total},
                      hi \in {y \in 1..world.total :
                                y >= IF shown + 1 <= world.total THEN 1 ELSE world.total + 1}}

\* One attempt of fetchReviewPage: a failure (HTTP status, missing data,
\* transport) or json.data with evaViewList and totalPage (NULL when absent).
AttemptOutcomes ==
    {ErrorOutcome} \cup
    {[kind |-> "data", list |-> l, totalPage |-> t] :
        l \in {w \in ApiLists : Len(w) <= MaxPageLen},
        t \in {NULL} \cup (0..MaxTotalPages)}

Retryable(o) == o.kind = "error" \/ Len(o.list) = 0

\* The outcomes of the MAX_ATTEMPTS attempts; attempts that are never made
\* are filled with ErrorOutcome.
LastTwo == UNION {{<<b, c>> : c \in IF Retryable(b) THEN AttemptOutcomes ELSE {ErrorOutcome}} :
                  b \in AttemptOutcomes}
FetchInputs == UNION {{<<a>> \o t : t \in IF Retryable(a) THEN LastTwo
                                          ELSE {<<ErrorOutcome, ErrorOutcome>>}} :
                      a \in AttemptOutcomes}

\* fetchReviewPage: json.data, or [kind |-> "throw"]
RECURSIVE FetchReviewPage(_, _)
FetchReviewPage(outs, attempt) ==
    LET o == outs[attempt]
    IN IF o.kind = "error"
       THEN IF attempt = MAX_ATTEMPTS THEN [kind |-> "throw"]
            ELSE FetchReviewPage(outs, attempt + 1)
       ELSE IF Len(o.list) = 0 /\ attempt < MAX_ATTEMPTS
            THEN FetchReviewPage(outs, attempt + 1)
            ELSE o

\* The while condition without its last-page test.
ApiLoopCondNoLast(s, pn, tp) == s < RESULTS_WANTED

\* while (saved < RESULTS_WANTED && (totalPages === null || pageNumber <= totalPages))
ApiLoopCond(s, pn, tp) == s < RESULTS_WANTED /\ (tp = NULL \/ pn <= tp)

\* pageNumber++.  The loop compares pageNumber with totalPages only, which is
\* at most MaxTotalPages, so the pages from MaxPage on are told apart by
\* their parity alone.
NextPage(pn) == IF pn > MaxPage THEN MaxPage ELSE pn + 1

LastShown(l) == IF Len(l) = 0 THEN shown ELSE Max(shown, l[Len(l)].id)

\* One iteration of the while loop in which fetchReviewPage returns.
ApiRound ==
    /\ pc = "extract"
    /\ variant = "api"
    /\ \E outs \in FetchInputs :
         LET data == FetchReviewPage(outs, 1)
         IN /\ data.kind = "data"
            /\ LET tp == IF data.totalPage # NULL THEN data.totalPage ELSE totalPages
                   st == AddUnique(data.list, 1,
                                   [saved |-> saved, seen |-> seen, buf |-> <<>>], "id")
                   last == Len(data.list) > 0 /\ tp # NULL /\ tp # 0 /\ pageNumber >= tp
                   pn == IF last THEN pageNumber ELSE NextPage(pageNumber)
               IN /\ totalPages' = tp
                  /\ shown' = LastShown(data.list)
                  /\ saved' = st.saved
                  /\ seen' = st.seen
                  /\ accepted' = accepted \o st.buf
                  /\ dataset' = IF Len(st.buf) > 0 THEN Append(dataset, st.buf) ELSE dataset
                  /\ pageNumber' = pn
                  /\ pc' = IF ~last /\ ApiLoopCond(st.saved, pn, tp) THEN "extract" ELSE "done"
                  /\ exitReason' = IF st.saved >= RESULTS_WANTED THEN "target"
                                   ELSE IF last \/ ~ApiLoopCond(st.saved, pn, tp)
                                        THEN "lastpage" ELSE exitReason
                  /\ progressed' = (progressed \/ Len(st.buf) > 0)
    /\ UNCHANGED <<RESULTS_WANTED_RAW, raw, emitted, variant, RESULTS_WANTED, world, retryCount, faults, round, buffer,
                   stall, lastCount, lastHeight, base, roundsRun, idle>>

-----------------------------------------------------------------------------
(* "single": one extraction, one push *)

SingleExtract ==
    /\ pc = "extract"
    /\ variant = "single"
    /\ \E v \in 0..world.total, how \in {"id", "rnd"} :
         LET st == AddUnique(Visible(v), 1,
                             [saved |-> saved, seen |-> seen, buf |-> <<>>], how)
         IN /\ shown' = v
            /\ saved' = st.saved
            /\ seen' = st.seen
            /\ accepted' = accepted \o st.buf
            /\ dataset' = IF Len(st.buf) > 0 THEN Append(dataset, st.buf) ELSE dataset
            /\ progressed' = (Len(st.buf) > 0)
            /\ exitReason' = IF st.saved >= RESULTS_WANTED THEN "target" ELSE "onepage"
    /\ pc' = "done"
    /\ roundsRun' = roundsRun + 1
    /\ UNCHANGED <<RESULTS_WANTED_RAW, raw, emitted, variant, RESULTS_WANTED, world, retryCount, faults, round, buffer,
                   stall, lastCount, lastHeight, pageNumber, totalPages, base, idle>>

-----------------------------------------------------------------------------
(* "intercept": a response callback fills the buffer while the handler scrolls *)

\* The handler is suspended in an await while the page is open.
PageAlive == pc \in {"extract", "fallback", "flushing"}

\* What an intercepted response carries: the next world.maxNew reviews, or
\* the first ones again.
ResponseLists ==
    {Window(lo, Min(lo + world.maxNew - 1, world.total)) :
        lo \in {x \in {1, shown + 1} : x <= world.total}}

\* page.on('response', ...): one intercepted review response.
Response ==
    /\ variant = "intercept"
    /\ PageAlive
    /\ \E l \in ResponseLists :
         /\ LET st == AddUnique(l, 1, [saved |-> saved, seen |-> seen, buf |-> buffer], "id")
            IN /\ shown' = LastShown(l)
               /\ saved' = st.saved
               /\ seen' = st.seen
               /\ buffer' = st.buf
               /\ accepted' = accepted \o SubSeq(st.buf, Len(buffer) + 1, Len(st.buf))
               /\ progressed' = (progressed \/ st.saved > saved)
    /\ UNCHANGED <<RESULTS_WANTED_RAW, raw, emitted, variant, RESULTS_WANTED, world, pc, retryCount, faults, round, stall,
                   lastCount, lastHeight, pageNumber, totalPages, dataset, base,
                   roundsRun, idle, exitReason>>

\* if (saved < RESULTS_WANTED) { HTML fallback }
AfterLoop(s) == IF s < RESULTS_WANTED THEN "fallback" ELSE "flush"

\* One iteration of the scroll loop: scroll, wait, batch save, target check.
InterceptRound ==
    /\ pc = "extract"
    /\ variant = "intercept"
    /\ LET doBatch == Len(buffer) >= BATCH_SIZE
           more == saved < RESULTS_WANTED /\ LoopCond(variant, round + 1, saved)
       IN /\ buffer' = IF doBatch THEN Drop(buffer, BATCH_SIZE) ELSE buffer
          /\ dataset' = IF doBatch THEN Append(dataset, Take(buffer, BATCH_SIZE)) ELSE dataset
          /\ round' = IF saved >= RESULTS_WANTED THEN round ELSE round + 1
          /\ pc' = IF more THEN "extract" ELSE AfterLoop(saved)
          /\ exitReason' = IF saved >= RESULTS_WANTED THEN "target"
                           ELSE IF more THEN exitReason ELSE "ceiling"
    /\ roundsRun' = roundsRun + 1
    /\ UNCHANGED <<RESULTS_WANTED_RAW, raw, emitted, variant, RESULTS_WANTED, world, shown, retryCount, faults, saved, seen,
                   stall, lastCount, lastHeight, pageNumber, totalPages, accepted, base,
                   idle, progressed>>

\* The HTML pass after the loop, keyed by review_text.substring(0, 50).
Fallback ==
    /\ pc = "fallback"
    /\ variant = "intercept"
    /\ \E v \in {x \in 0..world.total : x \in {0, shown} \/ x \in Pulls} :
         LET st == AddUnique(Visible(v), 1,
                             [saved |-> saved, seen |-> seen, buf |-> buffer], "text")
         IN /\ shown' = Max(shown, v)
            /\ saved' = st.saved
            /\ seen' = st.seen
            /\ buffer' = st.buf
            /\ accepted' = accepted \o SubSeq(st.buf, Len(buffer) + 1, Len(st.buf))
            /\ progressed' = (progressed \/ st.saved > saved)
    /\ pc' = "flush"
    /\ UNCHANGED <<RESULTS_WANTED_RAW, raw, emitted, variant, RESULTS_WANTED, world, retryCount, faults, round, stall,
                   lastCount, lastHeight, pageNumber, totalPages, dataset, base,
                   roundsRun, idle, exitReason>>

\* The awaited final pushData settles and requestHandler returns.
HandlerReturn ==
    /\ pc = "flushing"
    /\ pc' = "done"
    /\ UNCHANGED <<RESULTS_WANTED_RAW, raw, emitted, variant, RESULTS_WANTED, world, shown, retryCount, faults, round, saved,
                   seen, buffer, stall, lastCount, lastHeight, pageNumber, totalPages,
                   dataset, accepted, base, roundsRun, idle, progressed, exitReason>>

-----------------------------------------------------------------------------
(* Failures and the crawler's retry *)

\* The handler is suspended in a provider call.
AtProviderCall == pc \in {"extract", "advance", "fallback"}

\* What a rejected await leaves behind: the handler's frame is gone.
Abandon(why) ==
    /\ pc' = "failed"
    /\ buffer' = IF LocalBuffer(variant) THEN <<>> ELSE buffer
    /\ exitReason' = why
    /\ faults' = faults + 1
    /\ UNCHANGED <<RESULTS_WANTED_RAW, raw, emitted, variant, RESULTS_WANTED, world, shown, retryCount, round, saved, seen,
                   stall, lastCount, lastHeight, pageNumber, totalPages, dataset,
                   accepted, base, roundsRun, idle, progressed>>

\* page.evaluate / page.waitForTimeout / page.request.get rejects.
ProviderThrow ==
    /\ AtProviderCall
    /\ variant = "api" =>
          \E outs \in FetchInputs : FetchReviewPage(outs, 1).kind = "throw"
    /\ world.faulty
    /\ faults < MaxFaults
    /\ Abandon("fatal")

\* requestHandlerTimeoutSecs expires while the handler is suspended.
HandlerTimeout ==
    /\ variant # "api"
    /\ pc \in {"extract", "advance", "fallback", "flushing"}
    /\ world.faulty
    /\ faults < MaxFaults
    /\ Abandon("timeout")

StartPc(v, s) ==
    CASE v \in ScrollVariants -> IF LoopCond(v, 0, s) THEN "extract" ELSE "flush"
      [] v = "intercept" -> IF LoopCond(v, 0, s) THEN "extract" ELSE
                            IF s < RESULTS_WANTED THEN "fallback" ELSE "flush"
      [] OTHER -> "extract"

\* The crawler re-invokes requestHandler: its locals start over, module state stays.
Retry ==
    /\ pc = "failed"
    /\ retryCount < MaxRequestRetries(variant)
    /\ retryCount' = retryCount + 1
    /\ round' = 0
    /\ stall' = 0
    /\ lastCount' = 0
    /\ lastHeight' = 0
    /\ pageNumber' = 1
    /\ totalPages' = NULL
    /\ saved' = IF LocalCounters(variant) THEN 0 ELSE saved
    /\ seen' = IF LocalCounters(variant) THEN {} ELSE seen
    /\ base' = IF LocalCounters(variant) THEN Len(accepted) ELSE base
    /\ roundsRun' = 0
    /\ idle' = 0
    /\ progressed' = FALSE
    /\ exitReason' = "none"
    /\ shown' = 0
    /\ pc' = StartPc(variant, saved')
    /\ UNCHANGED <<RESULTS_WANTED_RAW, raw, emitted, variant, RESULTS_WANTED, world, faults, buffer, dataset, accepted>>

\* failedRequestHandler: the retries are used up.
GiveUp ==
    /\ pc = "failed"
    /\ retryCount >= MaxRequestRetries(variant)
    /\ pc' = "dead"
    /\ UNCHANGED <<RESULTS_WANTED_RAW, raw, emitted, variant, RESULTS_WANTED, world, shown, retryCount, faults, round, saved,
                   seen, buffer, stall, lastCount, lastHeight, pageNumber, totalPages,
                   dataset, accepted, base, roundsRun, idle, progressed, exitReason>>

-----------------------------------------------------------------------------
(* Field mapping: rating, review text and image URL of one emitted record *)

MaxStars == 6       \* most elements a star selector matches in one review
MaxSuffixes == 2    \* most size / format suffixes at the end of an image URL

\* Values of buyerEval the API may send, besides none and a non-number.
Scores == {-20, 0, 1, 4, 80, 97, 100, 120}
\* Lengths of the trimmed review text.
TextLengths == {0, 3, 7, 10, 12}
Suffixes == {"size", "avif", "webp"}

NoRaw == [via |-> "none"]
NoRecord == [dropped |-> TRUE, why |-> "none"]

\* buyerEval: absent, a string that is no number, or a number.
ScoreInputs ==
    {[kind |-> "missing"], [kind |-> "text"]} \cup {[kind |-> "num", n |-> n] : n \in Scores}

\* The text of a review: given or not, its length once trimmed, and whether
\* white space surrounds it.
TextInputs ==
    {[given |-> FALSE, len |-> 0, pad |-> FALSE]} \cup
    {[given |-> TRUE, len |-> l, pad |-> b] : l \in TextLengths, b \in BOOLEAN}

\* An image URL: protocol-relative or not, and the suffixes it ends with
\* ("size" is _NxN.jpg, "avif" is _.avif, "webp" is _.webp), last one last.
SuffixSeqs == UNION {[1..n -> Suffixes] : n \in 0..MaxSuffixes}
UrlInputs == {[rel |-> r, sfx |-> q] : r \in BOOLEAN, q \in SuffixSeqs}

PlainText == [given |-> TRUE, len |-> 12, pad |-> FALSE]
PlainUrl == [rel |-> FALSE, sfx |-> <<>>]

\* Where a variant reads its reviews from.
Vias(v) ==
    CASE v = "api" -> {"api"}
      [] v \in {"single", "intercept"} -> {"api", "dom"}
      [] OTHER -> {"dom"}

\* One aspect of the raw review varies at a time.
RawInputs ==
    {[via |-> w, stars |-> n, score |-> c, text |-> PlainText, image |-> PlainUrl] :
        w \in {"api", "dom"}, n \in 0..MaxStars, c \in ScoreInputs} \cup
    {[via |-> w, stars |-> 4, score |-> [kind |-> "num", n |-> 80],
      text |-> t, image |-> u] :
        w \in {"api", "dom"}, t \in TextInputs, u \in {PlainUrl}} \cup
    {[via |-> w, stars |-> 4, score |-> [kind |-> "num", n |-> 80],
      text |-> PlainText, image |-> u] :
        w \in {"api", "dom"}, u \in UrlInputs}

\* Ratings are kept in hundredths of a star: 4.85 is 485.
NullRating == [kind |-> "null"]
Stars(k) == [kind |-> "num", x100 |-> 100 * k]

\* normalizeRating: Math.max(0, Math.min(5, Math.round((n / 20) * 10) / 10))
normalizeRating(c) ==
    IF c.kind # "num" THEN NullRating
    ELSE IF c.n <= 0 THEN NullRating
    ELSE [kind |-> "num", x100 |-> Max(0, Min(500, 10 * ((c.n + 1) \div 2)))]

\* stars || 5, stars.length || 5, and let rating = 5; if (filled.length > 0) ...
StarsOrFive(n) == IF n = 0 THEN Stars(5) ELSE Stars(n)

\* r.buyerEval || r.star || 5: a truthy buyerEval is kept as it is.
ScoreOrFive(c) ==
    CASE c.kind = "missing" -> Stars(5)
      [] c.kind = "text"    -> [kind |-> "text"]
      [] OTHER              -> IF c.n = 0 THEN Stars(5) ELSE Stars(c.n)

\* Number(review.rating) || 5
NumberOrFive(r) == IF r.kind = "num" /\ r.x100 # 0 THEN r ELSE Stars(5)

Rating(v, r) ==
    CASE v = "api" -> normalizeRating(r.score)
      [] v = "single" ->
           NumberOrFive(IF r.via = "api" THEN ScoreOrFive(r.score) ELSE StarsOrFive(r.stars))
      [] v = "intercept" ->
           IF r.via = "api" THEN ScoreOrFive(r.score) ELSE StarsOrFive(r.stars)
      [] OTHER -> StarsOrFive(r.stars)


\* Review text.  textContent.trim() of an element; a missing element gives nothing.
NullText == [kind |-> "null"]
Trimmed(t) == [kind |-> "text", len |-> t.len, pad |-> FALSE]
\* x || '': what the API sent, white space included
AsSent(t) == [kind |-> "text", len |-> t.len, pad |-> t.given /\ t.pad]

\* The shortest trimmed text an extraction keeps: text.length < 10 and < 5
\* are skipped, length > 10 and a non-empty content are required.
MinText(v) ==
    CASE v \in {"stable", "height"}   -> 10
      [] v = "nonew"                  -> 5
      [] v \in {"noprog", "intercept"} -> 11
      [] v = "nonewcount"             -> 1
      [] OTHER                        -> 0

\* Whether the extraction leaves the review out.
Skipped(v, r) == r.via = "dom" /\ r.text.len < MinText(v)

Text(v, r) ==
    CASE v = "api" -> IF r.text.len = 0 THEN NullText ELSE Trimmed(r.text)
      [] r.via = "api" -> AsSent(r.text)
      [] OTHER -> Trimmed(r.text)

\* Image URLs.  url.replace(/_\.avif$/i, '') removes the suffix the URL ends with.
Strip(u, what) ==
    IF Len(u.sfx) > 0 /\ u.sfx[Len(u.sfx)] = what
    THEN [u EXCEPT !.sfx = SubSeq(u.sfx, 1, Len(u.sfx) - 1)]
    ELSE u
StripFormats(u) == Strip(Strip(u, "avif"), "webp")
\* img.startsWith('//') ? `https:${img}` : img, and img.src of an element
WithScheme(u) == [u EXCEPT !.rel = FALSE]

\* sanitizeImages
sanitizeImages(u) == Strip(Strip(Strip(u, "size"), "avif"), "webp")

Image(v, r) ==
    CASE v = "api" -> sanitizeImages(r.image)
      [] v = "single" -> WithScheme(r.image)
      [] v = "intercept" ->
           IF r.via = "api" THEN StripFormats(WithScheme(r.image))
           ELSE Strip(WithScheme(r.image), "avif")
      [] v \in {"noprog", "nonewcount"} ->
           StripFormats(WithScheme(StripFormats(WithScheme(r.image))))
      [] OTHER -> StripFormats(WithScheme(r.image))

\* The record a variant makes of one raw review, or none.
Emit(v, r) ==
    IF Skipped(v, r) THEN [dropped |-> TRUE, why |-> "text"]
    ELSE [dropped |-> FALSE, rating |-> Rating(v, r), text |-> Text(v, r),
          image |-> Image(v, r)]

MapRecord ==
    /\ raw # NoRaw
    /\ emitted = NoRecord
    /\ emitted' = Emit(variant, raw)
    /\ UNCHANGED <<RESULTS_WANTED_RAW, raw, variant, RESULTS_WANTED, world, shown, pc, retryCount, faults,
                   round, saved, seen, buffer, stall, lastCount, lastHeight, pageNumber,
                   totalPages, dataset, accepted, base, roundsRun, idle, progressed,
                   exitReason>>

-----------------------------------------------------------------------------
(* The results_wanted input.  Numbers are kept in halves: 2.5 is 5. *)

MaxWantedHalves == 7   \* largest results_wanted input tried, in halves

\* results_wanted: left out, a value that is no number, null, or a number.
WantedInputs ==
    {[kind |-> "missing"], [kind |-> "text"], [kind |-> "null"]} \cup
    {[kind |-> "num", x2 |-> n] : n \in (0 - 2)..MaxWantedHalves}

\* An integer input.
IntegerInput(n) == [kind |-> "num", x2 |-> 2 * n]

\* results_wanted: RESULTS_WANTED_RAW = 20 with
\* Number.isFinite(+RESULTS_WANTED_RAW) ? Math.max(1, +RESULTS_WANTED_RAW) : 20,
\* in halves.  The default stands in for a missing input only; +null is 0.
EffectiveTarget(r) ==
    CASE r.kind = "missing" -> 40
      [] r.kind = "text"    -> 40
      [] r.kind = "null"    -> Max(2, 0)
      [] OTHER              -> Max(2, r.x2)

\* The least integer saved with saved >= RESULTS_WANTED: every test of the
\* loops compares the integer saved with the target.
Threshold(t2) == (t2 + 1) \div 2

-----------------------------------------------------------------------------
(* Specifications *)

\* The products the model is run on.  wanted is the results_wanted input.
Worlds ==
    {\* a product without reviews
     [wanted |-> 2, total |-> 0, dupEvery |-> 0, maxNew |-> 1, steady |-> FALSE,
      heights |-> {1}, modal |-> {TRUE}, faulty |-> TRUE,
      idless |-> {}],
     \* three reviews, the second repeating the first one's opening; calls fail
     [wanted |-> 2, total |-> 3, dupEvery |-> 2, maxNew |-> 3, steady |-> TRUE,
      heights |-> {1}, modal |-> {TRUE}, faulty |-> TRUE,
      idless |-> {}],
     \* the same product behind a page that may show nothing new in a round
     [wanted |-> 3, total |-> 3, dupEvery |-> 2, maxNew |-> 3, steady |-> FALSE,
      heights |-> {1}, modal |-> {TRUE}, faulty |-> FALSE,
      idless |-> {}],
     \* a page on which the scrollable modal is never found
     [wanted |-> 3, total |-> 2, dupEvery |-> 0, maxNew |-> 1, steady |-> TRUE,
      heights |-> {1}, modal |-> {FALSE}, faulty |-> FALSE,
      idless |-> {}],
     \* 25 reviews, 20 wanted, something new in every round
     [wanted |-> 20, total |-> 25, dupEvery |-> 0, maxNew |-> 25, steady |-> TRUE,
      heights |-> {1}, modal |-> {TRUE}, faulty |-> FALSE,
      idless |-> {}],
     \* 12 reviews, 50 wanted
     [wanted |-> 50, total |-> 12, dupEvery |-> 0, maxNew |-> 12, steady |-> TRUE,
      heights |-> {1}, modal |-> {TRUE}, faulty |-> FALSE,
      idless |-> {}],
     \* one new review in every round, more wanted than any round ceiling
     [wanted |-> 151, total |-> 151, dupEvery |-> 0, maxNew |-> 1, steady |-> TRUE,
      heights |-> {1, 2}, modal |-> {TRUE}, faulty |-> FALSE,
      idless |-> {}]}

\* The module-level code has run on the input and the handler starts.
Started ==
    /\ RESULTS_WANTED = Threshold(EffectiveTarget(RESULTS_WANTED_RAW))
    /\ shown = 0
    /\ retryCount = 0
    /\ faults = 0
    /\ round = 0
    /\ saved = 0
    /\ seen = {}
    /\ buffer = <<>>
    /\ stall = 0
    /\ lastCount = 0
    /\ lastHeight = 0
    /\ pageNumber = 1
    /\ totalPages = NULL
    /\ dataset = <<>>
    /\ accepted = <<>>
    /\ base = 0
    /\ roundsRun = 0
    /\ idle = 0
    /\ progressed = FALSE
    /\ exitReason = "none"
    /\ pc = StartPc(variant, 0)

InitWith(vs, ws) ==
    /\ variant \in vs
    /\ world \in ws
    /\ RESULTS_WANTED_RAW = IntegerInput(world.wanted)
    /\ Started

SmallWorlds == {w \in Worlds : w.total <= 3}

\* 12 reviews, 50 wanted, on a page that may show nothing new for some rounds
\* and whose modal keeps its height; run by the loop that watches the height.
PausingWorlds ==
    {[wanted |-> 50, total |-> 12, dupEvery |-> 0, maxNew |-> 12, steady |-> FALSE,
      heights |-> {1}, modal |-> {TRUE}, faulty |-> FALSE,
      idless |-> {}]}

\* Products whose last wanted review may come late: two reviews behind a page
\* that may show nothing new for some rounds, and sixty reviews shown one per
\* round, as many as the shortest loop has rounds.
LateTargetWorlds ==
    {[wanted |-> 2, total |-> 2, dupEvery |-> 0, maxNew |-> 1, steady |-> FALSE,
      heights |-> {1}, modal |-> {TRUE}, faulty |-> FALSE,
      idless |-> {}],
     [wanted |-> 60, total |-> 60, dupEvery |-> 0, maxNew |-> 1, steady |-> TRUE,
      heights |-> {1}, modal |-> {TRUE}, faulty |-> FALSE,
      idless |-> {}]}

\* Three reviews, the last two sent by the API without any identifier.
IdlessWorlds ==
    {[wanted |-> 4, total |-> 3, dupEvery |-> 0, maxNew |-> 3, steady |-> TRUE,
      heights |-> {1}, modal |-> {TRUE}, faulty |-> FALSE, idless |-> {2, 3}]}

Init ==
    /\ \/ InitWith(ScrollVariants, Worlds)
       \/ InitWith({"api"}, IdlessWorlds)
       \/ InitWith({"height"}, PausingWorlds)
       \/ InitWith({"height", "nonew"}, LateTargetWorlds)
       \/ InitWith({"intercept"}, {w \in Worlds : w.total <= 25})
       \/ InitWith({"api", "single"}, SmallWorlds)
    /\ raw = NoRaw
    /\ emitted = NoRecord

Next ==
    \/ ScrollRound
    \/ ScrollAdvance
    \/ ApiRound
    \/ SingleExtract
    \/ Response
    \/ InterceptRound
    \/ Fallback
    \/ FinalFlush
    \/ HandlerReturn
    \/ ProviderThrow
    \/ HandlerTimeout
    \/ Retry
    \/ GiveUp

Spec == Init /\ [][Next]_vars

\* The API variant alone.  The handler and the crawler take their steps
\* whenever they can; nothing obliges a call to fail.
InitApi == InitWith({"api"}, SmallWorlds) /\ raw = NoRaw /\ emitted = NoRecord

NextApi ==
    \/ ApiRound
    \/ ProviderThrow
    \/ Retry
    \/ GiveUp

SpecApi ==
    /\ InitApi
    /\ [][NextApi]_vars
    /\ WF_vars(ApiRound)
    /\ WF_vars(Retry)
    /\ WF_vars(GiveUp)

\* Four reviews, two more shown in every round, behind every results_wanted
\* input (the wanted field is not read: the input is drawn from WantedInputs).
TargetWorlds ==
    {[wanted |-> 0, total |-> 4, dupEvery |-> 0, maxNew |-> 2, steady |-> TRUE,
      heights |-> {1}, modal |-> {TRUE}, faulty |-> FALSE,
      idless |-> {}]}

\* The scroll loops on every form of the results_wanted input.
InitTarget ==
    /\ variant \in {"stable", "noprog"}
    /\ world \in TargetWorlds
    /\ RESULTS_WANTED_RAW \in WantedInputs
    /\ Started
    /\ raw = NoRaw
    /\ emitted = NoRecord

NextTarget ==
    \/ ScrollRound
    \/ ScrollAdvance
    \/ FinalFlush

SpecTarget == InitTarget /\ [][NextTarget]_vars

\* The field mapping alone: one raw review, mapped by one variant.
InitMap ==
    /\ InitWith(Variants, {w \in Worlds : w.total = 0})
    /\ raw \in RawInputs
    /\ raw.via \in Vias(variant)
    /\ emitted = NoRecord

NextMap == MapRecord

SpecMap == InitMap /\ [][NextMap]_vars

-----------------------------------------------------------------------------
(* What a run leaves in the Dataset *)

RECURSIVE Flatten(_)
Flatten(batches) ==
    IF batches = <<>> THEN <<>> ELSE Head(batches) \o Flatten(Tail(batches))

\* Every record handed to Dataset.pushData so far, in order.
Pushed == Flatten(dataset)
TotalPushed == Len(Pushed)
Range(q) == {q[i] : i \in 1..Len(q)}

\* The harvest loop of a scroll variant is still running.
InLoop == pc \in {"extract", "advance"}

-----------------------------------------------------------------------------
(* Properties *)

\* C1: over a whole run the number of records handed to Dataset.pushData,
\* mid-loop batches and final flush together, never exceeds RESULTS_WANTED.
C1_PushedWithinTarget == TotalPushed <= RESULTS_WANTED

\* C2: in every reachable state saved <= RESULTS_WANTED, saved is the number
\* of records the dedup step of the running handler has accepted (and, in the
\* text-prefix variants, the size of the seen set), and no record is accepted
\* in a state where saved = RESULTS_WANTED.
C2_SavedCountsAccepted ==
    /\ [](/\ saved <= RESULTS_WANTED
          /\ saved = Len(accepted) - base
          /\ variant \in ScrollVariants => Cardinality(seen) = saved)
    /\ [][saved = RESULTS_WANTED => accepted' = accepted]_vars

\* The target is reached while the page shows more reviews than were accepted.
C2_Witness ==
    /\ variant \in ScrollVariants
    /\ saved = RESULTS_WANTED
    /\ shown > saved
    /\ Len(accepted) = RESULTS_WANTED

\* C3: when the request handler returns normally, saved equals the number of
\* records pushed to the Dataset over all batches and the final flush.
C3_SavedEqualsPushed == pc = "done" => saved = TotalPushed

\* C4: at most one record per text-prefix fingerprint is ever pushed in a run.
C4_OnePerFingerprint ==
    \A i, j \in 1..Len(Pushed) :
        i # j => Pushed[i].text.head # Pushed[j].text.head

\* C5: when a provider call throws during a round, every record accepted so
\* far has been pushed to the Dataset by the time the handler is left.
C5_FlushOnThrow ==
    (LocalBuffer(variant) /\ pc = "failed" /\ exitReason = "fatal")
        => Range(accepted) \subseteq Range(Pushed)

\* C6: when requestHandlerTimeoutSecs expires in the harvest loop, the run
\* goes through the final flush: every record accepted before the expiry is
\* in the Dataset.
C6_FlushOnTimeout ==
    (LocalBuffer(variant) /\ pc = "failed" /\ exitReason = "timeout")
        => Range(accepted) \subseteq Range(Pushed)

\* C7: in every scroll variant the loop does not run on after the page has
\* shown no progress for StallThreshold consecutive rounds, modal found or not.
C7_StallStops ==
    (variant \in ScrollVariants /\ InLoop) => idle <= StallThreshold(variant)

\* C8: a scroll loop runs at most RoundCeiling rounds, whatever the page shows.
C8_RoundCeiling ==
    variant \in ScrollVariants \cup {"intercept"} => roundsRun <= RoundCeiling(variant)

\* A loop ended by its ceiling although every round brought a new review.
C8_Witness ==
    /\ variant = "stable"
    /\ pc = "flush"
    /\ exitReason = "ceiling"
    /\ roundsRun = RoundCeiling(variant)
    /\ saved = RoundCeiling(variant)
    /\ saved < RESULTS_WANTED

\* C9: the API pagination loop ends for every behaviour of the API.
C9_ApiLoopEnds == <>(pc \in {"done", "dead"})

\* C10: with 25 reviews, a target of 20 and batches of 10 the run makes
\* exactly two pushData calls of 10 records, ends with saved = 20 by reaching
\* the target, however the reviews are spread over the rounds.
C10_TwoBatchesOfTen ==
    (world.total = 25 /\ RESULTS_WANTED = 20 /\ pc = "done")
        => /\ Len(dataset) = 2
           /\ Len(dataset[1]) = BATCH_SIZE
           /\ Len(dataset[2]) = BATCH_SIZE
           /\ saved = 20
           /\ exitReason = "target"

\* C11: with 12 reviews in total, a target of 50 and batches of 10, a scroll
\* run that has been shown all 12 ends as exhausted with saved = 12, one
\* batch of 10 pushed in the loop and a final push of exactly 2 records.
C11_TenThenTwo ==
    (variant \in ScrollVariants /\ world.total = 12 /\ RESULTS_WANTED = 50
       /\ shown = 12 /\ pc = "done")
        => /\ saved = 12
           /\ exitReason \in {"stall", "noscroll"}
           /\ Len(dataset) = 2
           /\ Len(dataset[1]) = BATCH_SIZE
           /\ Len(dataset[2]) = 2

\* C12: fetchReviewPage does not throw when all MAX_ATTEMPTS attempts fail or
\* come back empty: the API handler is never left by a failed page fetch.
C12_FetchDoesNotThrow ==
    ~(variant = "api" /\ pc = "failed" /\ exitReason = "fatal")

\* C13: for a product without reviews the request handler, unless a call
\* fails, comes to a normal end with saved = 0 and no pushData call.
C13_NoReviewsEndsClean ==
    <>(\/ world.total # 0
       \/ faults > 0
       \/ (pc = "done" /\ saved = 0 /\ dataset = <<>>))

\* The variants that number their records: review_id = productId_(saved + 1).
Numbering(v) == v \in {"stable", "nonew", "height"}

\* C14: no two records pushed in a run carry the same review_id, and in the
\* numbering variants the k-th record pushed has review_id productId_k.
C14_UniqueReviewIds ==
    /\ \A i, j \in 1..Len(Pushed) :
          i # j => Pushed[i].review_id # Pushed[j].review_id
    /\ Numbering(variant) =>
          \A k \in 1..Len(Pushed) : Pushed[k].review_id = <<"seq", k>>


\* A record was made of the raw review and it was not left out.
Emitted == emitted # NoRecord /\ ~emitted.dropped

\* C15: every emitted record has a numeric rating between 0 and 5 (0..500
\* hundredths), whatever the star count or the score of the raw review.
C15_RatingWithinZeroToFive ==
    Emitted => emitted.rating.kind = "num" /\ emitted.rating.x100 \in 0..500

\* The raw review exposes neither a star count nor a score: no star element
\* matched, or buyerEval is missing, zero or no number.
NoRating(r) ==
    IF r.via = "dom" THEN r.stars = 0
    ELSE \/ r.score.kind \in {"missing", "text"}
         \/ r.score.kind = "num" /\ r.score.n = 0

\* C16: in every variant a raw review without star count and without score
\* is emitted with rating 5.
C16_DefaultRatingFive ==
    (Emitted /\ NoRating(raw)) => emitted.rating = Stars(5)

\* The raw text is absent, empty or white space only.
Blank(t) == t.len = 0

\* C17: a raw review whose text is absent, empty or white space only is
\* left out by every variant; no record is made of it.
C17_BlankTextDropped ==
    (emitted # NoRecord /\ Blank(raw.text)) => emitted.dropped

\* The form "https://host/img": a scheme and no format suffix at the end.
Normalized(u) ==
    /\ ~u.rel
    /\ Len(u.sfx) = 0 \/ u.sfx[Len(u.sfx)] \notin {"avif", "webp"}

\* C18: every variant emits an image URL with the https scheme and without
\* a trailing _.avif or _.webp: //host/img_.avif and //host/img_.webp both
\* become https://host/img.
C18_ImageUrlNormalized ==
    (Emitted /\ Len(raw.image.sfx) <= 1) => Normalized(emitted.image)

\* C19: the API variant maps an integer score s in 0..100 to s / 20
\* (500 * s / 100 hundredths): 80 gives 4.0 and 97 gives 4.85.
C19_ScoreOverTwenty ==
    (Emitted /\ variant = "api" /\ raw.score.kind = "num" /\ raw.score.n \in 0..100)
        => emitted.rating = [kind |-> "num", x100 |-> 5 * raw.score.n]

\* A step of the handler's own control flow: its position, its round count or
\* its page number moves.
LoopStep == pc' # pc \/ roundsRun' # roundsRun \/ pageNumber' # pageNumber

\* C20: saved, the seen set and the pending buffer change only in steps of
\* the round loop; nothing else changes them while the loop is suspended.
C20_OnlyLoopMutates ==
    [][<<saved, seen, buffer>>' # <<saved, seen, buffer>> => LoopStep]_vars

\* The loops that pull, deduplicate and then check their stop conditions.
PullLoops == ScrollVariants \cup {"api"}

\* What a step does about the target in a loop that pulls.
TargetEndsRound ==
    variant \in PullLoops =>
       /\ (saved < RESULTS_WANTED /\ saved' >= RESULTS_WANTED) =>
             /\ pc' \in {"flush", "done"}
             /\ exitReason' = "target"
             /\ stall' = stall /\ lastCount' = lastCount /\ lastHeight' = lastHeight
             /\ round' = round
       /\ saved >= RESULTS_WANTED =>
             /\ shown' = shown /\ stall' = stall /\ round' = round
             /\ pageNumber' = pageNumber /\ roundsRun' = roundsRun
             /\ pc' \in {"flush", "done"}

AcceptingRound ==
    /\ variant \in ScrollVariants
    /\ pc = "extract"
    /\ saved' > saved
    /\ saved' < RESULTS_WANTED

\* C22: in every scroll variant a round that accepted at least one new record
\* sets the stall counter to zero, whether or not the modal's height changed.
C22_AcceptResetsStall == [][AcceptingRound => stall' = 0]_vars

\* What the page reports to the loop in a round: to the loops that read the
\* modal's scrollHeight a height other than the recorded one, to the others
\* reviews it had not shown before.
ProviderChange ==
    IF variant \in {"stable", "height"} THEN lastHeight' # lastHeight
    ELSE shown' > shown

\* C23: in every scroll variant the stall counter goes up in a round only if
\* no record was accepted in it and the page reported no change.
C23_StallNeedsNoChange ==
    [][(variant \in ScrollVariants /\ stall' > stall)
          => (saved' = saved /\ ~ProviderChange)]_vars

\* C24: no harvest loop is ended by its stall threshold before a round of it
\* has accepted a record or seen the page progress.
C24_NoStallBeforeProgress ==
    (variant \in ScrollVariants /\ exitReason = "stall") => progressed

\* The harvest loop was left although the target was not reached.
Exhausted == exitReason \in {"stall", "noscroll", "ceiling"}

\* C25: a scroll loop ends as exhausted only with its stall counter at the
\* variant's threshold or with its rounds used up; one scroll that did not
\* move does not end it.
C25_ExhaustedByThresholdOnly ==
    (variant \in ScrollVariants /\ Exhausted)
        => \/ stall >= StallThreshold(variant)
           \/ round >= RoundCeiling(variant)

IsPrefix(a, b) == Len(a) <= Len(b) /\ SubSeq(b, 1, Len(a)) = a

\* C26: the batches pushed to the Dataset so far, put one after the other in
\* push order, are at every moment a prefix of the accepted records in the
\* order of their acceptance.
C26_PushedPrefixOfAccepted == IsPrefix(Pushed, accepted)

\* C27: no pushData call, mid-loop or final, carries more than BATCH_SIZE
\* records, and between rounds the pending buffer holds fewer than BATCH_SIZE.
C27_BatchesWithinBatchSize ==
    /\ \A i \in 1..Len(dataset) : Len(dataset[i]) <= BATCH_SIZE
    /\ (variant \in ScrollVariants /\ pc = "advance") => Len(buffer) < BATCH_SIZE

\* The API loop is about to call fetchReviewPage(page, pageNumber).
AboutToFetch == variant = "api" /\ pc = "extract"

\* From one call of fetchReviewPage to the next within an invocation.
NextFetch ==
    (AboutToFetch /\ pc' = "extract" /\ pageNumber <= MaxPage)
        => pageNumber' = pageNumber + 1

DedupFrame ==
    /\ seen \subseteq seen'
    /\ seen' = seen => (saved' = saved /\ accepted' = accepted)
    /\ saved = RESULTS_WANTED => seen' = seen

\* C29: a raw record whose fingerprint is already seen changes neither saved
\* nor the seen set nor the buffer, a record that arrives at
\* saved = RESULTS_WANTED is not added to the seen set, and the seen set never
\* loses an element during a run.
C29_SeenOnlyGrows == [][DedupFrame]_vars

\* The records a step accepts.
NewlyAccepted == SubSeq(accepted', Len(accepted) + 1, Len(accepted'))

\* What a step does to collectedReviews: it appends the records it accepts,
\* in order, or it splices one batch off the front.
AppendedOnce ==
    /\ saved' - saved = Len(NewlyAccepted)
    /\ \/ buffer' = buffer \o NewlyAccepted
       \/ buffer' = Drop(buffer, BATCH_SIZE) /\ NewlyAccepted = <<>>

\* C30: in the interception variant, however response callbacks interleave
\* with the scroll loop, the batch saves and the HTML fallback, saved never
\* exceeds RESULTS_WANTED and every accepted record is appended to
\* collectedReviews exactly once.
C30_InterceptCountsOnce ==
    /\ [](variant = "intercept" =>
            /\ saved <= RESULTS_WANTED
            /\ saved = Len(accepted)
            /\ \A i, j \in 1..Len(buffer) : i # j => buffer[i] # buffer[j])
    /\ [][variant = "intercept" => AppendedOnce]_vars

\* A run in which callbacks, a mid-loop batch and the fallback all took part.
C30_Witness ==
    /\ variant = "intercept"
    /\ pc = "done"
    /\ Len(dataset) >= 2
    /\ \E i, j \in 1..Len(accepted) :
          accepted[i].review_id[1] = "id" /\ accepted[j].review_id[1] = "rnd"

\* C31: in the interception variant every record a response callback counted
\* in saved has been pushed to the Dataset when the request handler has
\* returned, also a record added while the final pushData was awaited.
C31_CountedIsPushed ==
    (variant = "intercept" /\ pc = "done" /\ faults = 0)
        => Range(accepted) \subseteq Range(Pushed)

\* The review of the product a record was made of.
Underlying(rec) == rec.text.tail

\* C32: in the interception variant a review of the product is accepted at
\* most once in a run, whether a response callback or the HTML fallback sees
\* it first.
C32_ReviewAcceptedOnce ==
    variant = "intercept" =>
        \A i, j \in 1..Len(accepted) :
            i # j => Underlying(accepted[i]) # Underlying(accepted[j])

\* The records the Dataset or the pending buffer holds.
Held == Range(Pushed) \cup Range(buffer)

\* C33: in the scroll variants every fingerprint in the seen set is that of a
\* record in the Dataset or in the pending buffer, also after the handler
\* threw and was re-invoked, and when the handler has returned saved is the
\* number of records in the Dataset.
C33_SeenIsHeld ==
    (variant \in ScrollVariants /\ pc # "failed") =>
        /\ \A k \in seen : \E rec \in Held : Key(rec, "text") = k
        /\ pc = "done" => saved = TotalPushed

\* C34: in the API variant a re-invocation after a throw does not push again
\* what the failed attempt pushed: no review id is in the Dataset twice and
\* the records pushed over all attempts are at most RESULTS_WANTED.
C34_RetryPushesNothingAgain ==
    (variant = "api" /\ retryCount > 0) =>
        /\ \A i, j \in 1..Len(Pushed) :
              i # j => Pushed[i].review_id # Pushed[j].review_id
        /\ TotalPushed <= RESULTS_WANTED

\* C35: for every results_wanted input the effective target is at least 1,
\* it is 20 when the input is no finite number, and neither saved nor the
\* number of records pushed ever exceeds it.
C35_TargetAtLeastOneAndKept ==
    LET target == EffectiveTarget(RESULTS_WANTED_RAW)
    IN /\ target >= 2
       /\ RESULTS_WANTED_RAW.kind \in {"missing", "text"} => target = 40
       /\ 2 * saved <= target
       /\ 2 * TotalPushed <= target

\* C36: sanitizeImages is idempotent and complete: for a URL that ends with
\* any sequence of the known suffixes, the URL the API variant emits is left
\* as it is by a second application and ends with none of the suffixes.
C36_SanitizeIdempotentComplete ==
    (Emitted /\ variant = "api")
        => /\ sanitizeImages(emitted.image) = emitted.image
           /\ Len(emitted.image.sfx) = 0

\* The review_id the claim expects for a review without identifier:
\* `${productId}-${review.evalDate}`.
FallbackId(i) == <<"date", i>>

\* C37: in the API variant a review without evaluationIdStr and evaluationId
\* that the API has delivered is accepted, not rejected as the duplicate of
\* another such review, and its record carries the review_id made of
\* productId and evalDate.
C37_IdlessReviewsKept ==
    (variant = "api" /\ retryCount = 0 /\ saved < RESULTS_WANTED) =>
        /\ \A i \in world.idless :
              i <= shown => \E k \in 1..Len(accepted) : Underlying(accepted[k]) = i
        /\ \A k \in 1..Len(accepted) :
              Underlying(accepted[k]) \in world.idless
                 => accepted[k].review_id = FallbackId(Underlying(accepted[k]))

====
